---- MODULE Spec2Model ----
(***************************************************************************)
(* FigmaToBdd: the design-tree normalization pass of FigmaClient           *)
(* (src/figma_client.py), the constructors of FigmaClient and              *)
(* BedrockClient (src/bedrock_client.py) with the process-global default   *)
(* HTTPS context, and the commands of src/main.py.                         *)
(*                                                                         *)
(* Python values are encoded as records [k |-> kind, v |-> payload]:       *)
(*   None  -> [k |-> "none", v |-> 0]      bool -> [k |-> "bool", v |-> b] *)
(*   int   -> [k |-> "num",  v |-> n]      str  -> [k |-> "str",  v |-> s] *)
(*   list  -> [k |-> "list", v |-> <<..>>] dict -> [k |-> "dict", v |-> f] *)
(* where f is a function from key strings to encoded values.  A call that  *)
(* raises yields [k |-> "raise", v |-> exception class name].              *)
(***************************************************************************)
EXTENDS Integers, Sequences, FiniteSets, TLC

VARIABLES
    op, arg, ret,           \* a call of a normalization function
    cmd, cfg, pc,           \* a command of main.py, its options and position
    raw_data, figma_data, bdd_scenarios,    \* the command's local variables
    files, echo, trace,     \* files written, messages echoed, steps taken
    default_https_context,  \* the process-global ssl._create_default_https_context
    clients                 \* the client constructors that have run, in order

callVars == <<op, arg, ret>>
cmdVars == <<cmd, cfg, pc, raw_data, figma_data, bdd_scenarios, files, echo, trace>>
procVars == <<default_https_context, clients>>
vars == <<op, arg, ret, cmd, cfg, pc, raw_data, figma_data, bdd_scenarios,
          files, echo, trace, default_https_context, clients>>

---------------------------------------------------------------------------
(* Python values *)

None == [k |-> "none", v |-> 0]
Bool(b) == [k |-> "bool", v |-> b]
True == Bool(TRUE)
False == Bool(FALSE)
Num(n) == [k |-> "num", v |-> n]
Str(s) == [k |-> "str", v |-> s]
List(s) == [k |-> "list", v |-> s]
Dict(f) == [k |-> "dict", v |-> f]
Raised(e) == [k |-> "raise", v |-> e]

IsDict(x) == x.k = "dict"
IsList(x) == x.k = "list"
IsRaise(x) == x.k = "raise"
IsStr(x, s) == x.k = "str" /\ x.v = s

\* bool(x): the truth value Python's `if x:` tests
Truthy(x) ==
    CASE x.k = "none" -> FALSE
      [] x.k = "bool" -> x.v
      [] x.k = "num"  -> x.v # 0
      [] x.k = "str"  -> x.v # ""
      [] x.k = "list" -> Len(x.v) > 0
      [] x.k = "dict" -> DOMAIN x.v # {}

\* `key in d` for a dict d
HasKey(d, key) == key \in DOMAIN d.v

\* d.get(key, default) for a dict d
Get(d, key, default) == IF key \in DOMAIN d.v THEN d.v[key] ELSE default

\* d[key] = value on the dict payload f
SetItem(f, key, value) == (key :> value) @@ f

\* iter(x) succeeds for list, dict and str; None, bool and int raise TypeError
Iterable(x) == x.k \in {"list", "dict", "str"}

RECURSIVE SetToSeq(_)
SetToSeq(S) == IF S = {} THEN <<>>
               ELSE LET x == CHOOSE y \in S : TRUE
                    IN <<x>> \o SetToSeq(S \ {x})

\* the items a `for child in x` loop visits: a list's items, a dict's keys,
\* a str's characters (exact for strings of at most one character)
Items(x) ==
    CASE x.k = "list" -> x.v
      [] x.k = "dict" -> [i \in 1..Cardinality(DOMAIN x.v) |->
                             Str(SetToSeq(DOMAIN x.v)[i])]
      [] x.k = "str"  -> IF x.v = "" THEN <<>> ELSE <<Str(x.v)>>

---------------------------------------------------------------------------
(* FigmaClient: normalization *)
(* A step that follows a call takes the call's result as a parameter and   *)
(* passes a raised exception on unchanged, as Python's propagation does.   *)

\* mutant of _get_font_size: a missing font size reads as 0
_get_font_size_zero(text_element) ==
    LET style == Get(text_element, "style", Dict(<<>>))
    IN IF ~IsDict(style) THEN Raised("AttributeError")
       ELSE Get(style, "fontSize", Num(0))

\* FigmaClient._get_font_size
_get_font_size(text_element) ==
    LET style == Get(text_element, "style", Dict(<<>>))
    IN IF ~IsDict(style) THEN Raised("AttributeError")
       ELSE Get(style, "fontSize", None)

\* element_data[key] = value, where computing value may have raised
SetResult(element_data, key, value) ==
    IF IsRaise(value) THEN value ELSE Dict(SetItem(element_data.v, key, value))

\* mutant of BaseFields: visible read without its default
BaseFieldsNoDefault(element) ==
    Dict(("name" :> Get(element, "name", None))
      @@ ("id" :> Get(element, "id", None))
      @@ ("type" :> Get(element, "type", None))
      @@ ("visible" :> Get(element, "visible", None)))

\* lines 198-203 of _process_element: the fields of every element
BaseFields(element) ==
    Dict(("name" :> Get(element, "name", None))
      @@ ("id" :> Get(element, "id", None))
      @@ ("type" :> Get(element, "type", None))
      @@ ("visible" :> Get(element, "visible", True)))

\* mutant of TypeFields: text read without its default, and every node
\* with fills treated as a shape
TypeFieldsByField(element, element_data) ==
    LET element_type == Get(element, "type", None)
    IN IF IsStr(element_type, "TEXT")
       THEN SetResult(Dict(SetItem(element_data.v, "text",
                                   Get(element, "characters", None))),
                      "font_size", _get_font_size(element))
       ELSE IF HasKey(element, "fills")
       THEN Dict(SetItem(SetItem(element_data.v,
                                 "fills", Get(element, "fills", List(<<>>))),
                         "strokes", Get(element, "strokes", List(<<>>))))
       ELSE IF IsStr(element_type, "COMPONENT") \/ IsStr(element_type, "INSTANCE")
       THEN Dict(SetItem(element_data.v, "component_id",
                         Get(element, "componentId", None)))
       ELSE element_data

\* lines 206-215 of _process_element: the fields of the element's type
TypeFields(element, element_data) ==
    LET element_type == Get(element, "type", None)
    IN IF IsStr(element_type, "TEXT")
       THEN SetResult(Dict(SetItem(element_data.v, "text",
                                   Get(element, "characters", Str("")))),
                      "font_size", _get_font_size(element))
       ELSE IF \E t \in {"RECTANGLE", "ELLIPSE", "POLYGON"} : IsStr(element_type, t)
       THEN Dict(SetItem(SetItem(element_data.v,
                                 "fills", Get(element, "fills", List(<<>>))),
                         "strokes", Get(element, "strokes", List(<<>>))))
       ELSE IF IsStr(element_type, "COMPONENT") \/ IsStr(element_type, "INSTANCE")
       THEN Dict(SetItem(element_data.v, "component_id",
                         Get(element, "componentId", None)))
       ELSE element_data

\* mutant of InteractiveFields: tests the key, not the truth of its value
InteractiveFieldsIfPresent(element, element_data) ==
    IF IsRaise(element_data) THEN element_data
    ELSE IF HasKey(element, "interactions")
    THEN Dict(SetItem(SetItem(element_data.v, "interactive", True),
                      "interactions", Get(element, "interactions", None)))
    ELSE element_data

\* lines 217-220 of _process_element: the interactive properties
InteractiveFields(element, element_data) ==
    IF IsRaise(element_data) THEN element_data
    ELSE IF Truthy(Get(element, "interactions", None))
    THEN Dict(SetItem(SetItem(element_data.v, "interactive", True),
                      "interactions", Get(element, "interactions", None)))
    ELSE element_data

\* mutant of AppendIfTruthy: list.insert(0, e) in place of list.append(e)
PrependIfTruthy(e, rest) ==
    IF IsRaise(e) THEN e
    ELSE IF IsRaise(rest) THEN rest
    ELSE List(rest.v \o (IF Truthy(e) THEN <<e>> ELSE <<>>))

\* one pass of `e = self._process_element(child); if e: list.append(e)`
\* followed by the rest of the loop; the first raising child ends the loop
AppendIfTruthy(e, rest) ==
    IF IsRaise(e) THEN e
    ELSE IF IsRaise(rest) THEN rest
    ELSE List((IF Truthy(e) THEN <<e>> ELSE <<>>) \o rest.v)

RECURSIVE _process_element(_), ProcessChildren(_)

\* the loop over children in _process_element (lines 225-228) and in
\* _process_frame (lines 179-182)
ProcessChildren(cs) ==
    IF Len(cs) = 0 THEN List(<<>>)
    ELSE AppendIfTruthy(_process_element(Head(cs)), ProcessChildren(Tail(cs)))

\* mutant of ChildrenField: tests the key, not the truth of its value
ChildrenFieldIfPresent(element, element_data) ==
    LET children == Get(element, "children", None)
    IN IF IsRaise(element_data) THEN element_data
       ELSE IF ~HasKey(element, "children") THEN element_data
       ELSE IF ~Iterable(children) THEN Raised("TypeError")
       ELSE SetResult(element_data, "children", ProcessChildren(Items(children)))

\* lines 222-228 of _process_element: the children
ChildrenField(element, element_data) ==
    LET children == Get(element, "children", None)
    IN IF IsRaise(element_data) THEN element_data
       ELSE IF ~Truthy(children) THEN element_data
       ELSE IF ~Iterable(children) THEN Raised("TypeError")
       ELSE SetResult(element_data, "children", ProcessChildren(Items(children)))

\* FigmaClient._process_element
_process_element(element) ==
    IF ~IsDict(element) THEN Raised("AttributeError")
    ELSE ChildrenField(element,
             InteractiveFields(element,
                 TypeFields(element, BaseFields(element))))

\* FigmaClient._process_frame
_process_frame(frame) ==
    IF ~IsDict(frame) THEN Raised("AttributeError")
    ELSE LET frame_data == Dict(("name" :> Get(frame, "name", None))
                             @@ ("id" :> Get(frame, "id", None))
                             @@ ("type" :> Get(frame, "type", None))
                             @@ ("elements" :> List(<<>>)))
             children == Get(frame, "children", List(<<>>))
         IN IF ~Iterable(children) THEN Raised("TypeError")
            ELSE SetResult(frame_data, "elements",
                           ProcessChildren(Items(children)))

\* one pass of `list.append(self._process_frame(frame))` or of
\* `pages.append(page_data)`, followed by the rest of the loop
AppendResult(e, rest) ==
    IF IsRaise(e) THEN e
    ELSE IF IsRaise(rest) THEN rest
    ELSE List(<<e>> \o rest.v)

RECURSIVE ProcessFrames(_)
\* the loop over a canvas's children: lines 153-155
ProcessFrames(fs) ==
    IF Len(fs) = 0 THEN List(<<>>)
    ELSE AppendResult(_process_frame(Head(fs)), ProcessFrames(Tail(fs)))

\* the page of a CANVAS child of the root: lines 146-155
ProcessCanvas(child) ==
    LET page_data == Dict(("name" :> Get(child, "name", None))
                       @@ ("id" :> Get(child, "id", None))
                       @@ ("frames" :> List(<<>>)))
        frames == Get(child, "children", List(<<>>))
    IN IF ~Iterable(frames) THEN Raised("TypeError")
       ELSE SetResult(page_data, "frames", ProcessFrames(Items(frames)))

RECURSIVE ProcessPagesAnyType(_)
\* mutant of ProcessPages: a page for every root child, whatever its type
ProcessPagesAnyType(cs) ==
    IF Len(cs) = 0 THEN List(<<>>)
    ELSE IF ~IsDict(Head(cs)) THEN Raised("AttributeError")
    ELSE AppendResult(ProcessCanvas(Head(cs)), ProcessPagesAnyType(Tail(cs)))

RECURSIVE ProcessPages(_)
\* the loop over the root's children: lines 144-157
ProcessPages(cs) ==
    IF Len(cs) = 0 THEN List(<<>>)
    ELSE IF ~IsDict(Head(cs)) THEN Raised("AttributeError")
    ELSE IF IsStr(Get(Head(cs), "type", None), "CANVAS")
    THEN AppendResult(ProcessCanvas(Head(cs)), ProcessPages(Tail(cs)))
    ELSE ProcessPages(Tail(cs))

\* mutant of extract_design_elements: text_elements is not initialized
extract_design_elements_unreserved(file_data) ==
    IF ~IsDict(file_data) THEN Raised("AttributeError")
    ELSE LET processed_data ==
                 Dict(("file_name" :> Get(file_data, "name", Str("Unknown")))
                   @@ ("pages" :> List(<<>>))
                   @@ ("components" :> List(<<>>))
                   @@ ("interactive_elements" :> List(<<>>)))
             document == Get(file_data, "document", Dict(<<>>))
         IN IF ~IsDict(document) THEN Raised("AttributeError")
            ELSE LET children == Get(document, "children", List(<<>>))
                 IN IF ~Iterable(children) THEN Raised("TypeError")
                    ELSE SetResult(processed_data, "pages",
                                   ProcessPages(Items(children)))

\* FigmaClient.extract_design_elements
extract_design_elements(file_data) ==
    IF ~IsDict(file_data) THEN Raised("AttributeError")
    ELSE LET processed_data ==
                 Dict(("file_name" :> Get(file_data, "name", Str("Unknown")))
                   @@ ("pages" :> List(<<>>))
                   @@ ("components" :> List(<<>>))
                   @@ ("text_elements" :> List(<<>>))
                   @@ ("interactive_elements" :> List(<<>>)))
             document == Get(file_data, "document", Dict(<<>>))
         IN IF ~IsDict(document) THEN Raised("AttributeError")
            ELSE LET children == Get(document, "children", List(<<>>))
                 IN IF ~Iterable(children) THEN Raised("TypeError")
                    ELSE SetResult(processed_data, "pages",
                                   ProcessPages(Items(children)))

---------------------------------------------------------------------------
(* Raw inputs: bounded sets of raw nodes, frames and documents *)

MaxChildren == 2
MaxDepth == 2
MaxFrames == 2
MaxRootChildren == 2

\* marks a key left out of a raw record (not a Python value)
Absent == [k |-> "absent", v |-> 0]

\* the dict with the keys of r that are not Absent
MkDict(r) == Dict([key \in {x \in DOMAIN r : r[x].k # "absent"} |-> r[key]])

SeqsUpTo(S, n) == UNION {[1..m -> S] : m \in 0..n}

InsertAt(s, i, x) == SubSeq(s, 1, i - 1) \o <<x>> \o SubSeq(s, i, Len(s))

Click == Dict("trigger" :> Str("ON_CLICK"))
Solid == Dict("type" :> Str("SOLID"))

\* one raw node with every combination of its optional fields, no children
FlatNodes ==
    { MkDict([type |-> t, id |-> Str("1:0"), visible |-> vis, characters |-> ch,
              style |-> st, fills |-> fs[1], strokes |-> fs[2],
              componentId |-> cid, interactions |-> ia, children |-> kids]) :
        t \in {Absent, Str("TEXT"), Str("RECTANGLE"), Str("ELLIPSE"),
               Str("POLYGON"), Str("COMPONENT"), Str("INSTANCE"), Str("GROUP")},
        vis \in {Absent, True, False},
        ch \in {Absent, Str("Hi")},
        st \in {Absent, None, Dict(<<>>), Dict("fontSize" :> Num(14))},
        fs \in {<<Absent, Absent>>, <<List(<<Solid>>), Absent>>,
                <<List(<<Solid>>), List(<<Solid>>)>>},
        cid \in {Absent, Str("c1")},
        ia \in {Absent, Dict(<<>>), List(<<>>), List(<<Click>>)},
        kids \in {Absent, None, List(<<>>)} }

TextKid == MkDict([type |-> Str("TEXT"), id |-> Str("1:1"), name |-> Str("Title"),
                   characters |-> Str("Hi"), style |-> Dict("fontSize" :> Num(14))])
ButtonKid == MkDict([type |-> Str("INSTANCE"), id |-> Str("1:2"), visible |-> False,
                     interactions |-> List(<<Click>>)])
LeafKids == {TextKid, ButtonKid}

LeafSeqs == SeqsUpTo(LeafKids, MaxChildren)

\* children sequences holding exactly one member of S among leaf siblings
OneSpecial(S) ==
    UNION { { InsertAt(s, i, x) : i \in 1..(Len(s) + 1), x \in S } :
            s \in SeqsUpTo(LeafKids, MaxChildren - 1) }

Group(cs) == MkDict([type |-> Str("GROUP"), id |-> Str("2:1"), children |-> cs])

RECURSIVE ChildSeqs(_)
\* children sequences nested at most d deep; a child that is not a record
\* (None) is the malformed case
ChildSeqs(d) ==
    LeafSeqs \cup
    OneSpecial({None} \cup
               (IF d = 0 THEN {}
                ELSE { Group(List(cs)) : cs \in ChildSeqs(d - 1) \ {<<>>} }))

NestedNodes ==
    { Group(List(cs)) : cs \in ChildSeqs(MaxDepth - 1) \ {<<>>} }
    \cup { Group(c) : c \in {Num(7), Str("x"), Dict("a" :> None)} }

ElementInputs == FlatNodes \cup NestedNodes \cup {None, Str("x")}

FrameInputs ==
    { MkDict([type |-> Str("FRAME"), id |-> Str("3:1"), name |-> nm, children |-> c]) :
        nm \in {Absent, Str("Login")},
        c \in {Absent, None, Str(""), Dict(<<>>), Num(7)}
              \cup { List(cs) : cs \in ChildSeqs(MaxDepth - 1) } }
    \cup {None}

FormFrame == MkDict([type |-> Str("FRAME"), id |-> Str("3:1"), name |-> Str("Login"),
                     children |-> List(<<TextKid, ButtonKid,
                                         MkDict([type |-> Str("COMPONENT"),
                                                 id |-> Str("1:3")])>>)])
EmptyFrame == MkDict([type |-> Str("FRAME"), id |-> Str("3:2")])
BadFrame == MkDict([type |-> Str("FRAME"), id |-> Str("3:3"), children |-> None])

Canvas(fs) == MkDict([type |-> Str("CANVAS"), id |-> Str("0:1"),
                      name |-> Str("Page 1"), children |-> fs])

\* children of the root: canvases, and non-canvas nodes with a subtree of
\* their own (well-formed or not)
RootKids ==
    { Canvas(List(fs)) : fs \in SeqsUpTo({FormFrame, EmptyFrame}, MaxFrames) }
    \cup { Canvas(c) : c \in {Absent, None, List(<<BadFrame>>)} }
    \cup { MkDict([type |-> Str("FRAME"), id |-> Str("0:9"),
                   children |-> List(<<FormFrame>>)]),
           MkDict([id |-> Str("0:8"), children |-> None]),
           None }

DocumentInputs ==
    { MkDict([name |-> nm, document |-> MkDict([children |-> List(cs)])]) :
        nm \in {Absent, Str("App")}, cs \in SeqsUpTo(RootKids, MaxRootChildren) }
    \cup { MkDict([name |-> nm, document |-> d]) :
             nm \in {Absent, Str("App")},
             d \in {Absent, None, Dict(<<>>), MkDict([children |-> None])} }
    \cup {None}

---------------------------------------------------------------------------
(* Calls of the normalization functions *)

Pending == [k |-> "pending", v |-> 0]
Unset == [k |-> "unset", v |-> 0]

\* a fresh process: the default HTTPS context verifies certificates and no
\* client has been constructed
NoClient == default_https_context = "verified" /\ clients = <<>>

\* no command of main.py is running
NoCommand ==
    /\ cmd = "none" /\ cfg = <<>> /\ pc = "done"
    /\ raw_data = Unset /\ figma_data = Unset /\ bdd_scenarios = Unset
    /\ files = {} /\ echo = <<>> /\ trace = <<>>

Init ==
    /\ \/ op = "_process_element" /\ arg \in ElementInputs
       \/ op = "_process_frame" /\ arg \in FrameInputs
       \/ op = "extract_design_elements" /\ arg \in DocumentInputs
    /\ ret = Pending
    /\ NoCommand
    /\ NoClient

ProcessElement ==
    /\ op = "_process_element" /\ ret = Pending
    /\ ret' = _process_element(arg)
    /\ UNCHANGED <<op, arg, cmdVars, procVars>>

ProcessFrame ==
    /\ op = "_process_frame" /\ ret = Pending
    /\ ret' = _process_frame(arg)
    /\ UNCHANGED <<op, arg, cmdVars, procVars>>

ExtractDesignElements ==
    /\ op = "extract_design_elements" /\ ret = Pending
    /\ ret' = extract_design_elements(arg)
    /\ UNCHANGED <<op, arg, cmdVars, procVars>>

Next == ProcessElement \/ ProcessFrame \/ ExtractDesignElements

Spec == Init /\ [][Next]_vars

---------------------------------------------------------------------------
(* The constructors of FigmaClient and BedrockClient *)

MaxClients == 3

\* FigmaClient.__init__: the instance keeps verify_ssl and an SSL context of
\* its own; the constructor performs no request
FigmaClient(access_token, verify_ssl) ==
    [cls |-> "FigmaClient", verify_ssl |-> verify_ssl,
     ssl_context |-> IF verify_ssl THEN "verified" ELSE "unverified",
     raised |-> FALSE]

\* BedrockClient.__init__: the instance keeps verify_ssl; boto3.client(...)
\* builds the client object or raises, and performs no request
BedrockClient(verify_ssl, raised) ==
    [cls |-> "BedrockClient", verify_ssl |-> verify_ssl,
     ssl_context |-> "none", raised |-> raised]

\* mutant of DefaultContextAfter: a verifying client restores the default
DefaultContextRestored(verify_ssl, current) ==
    IF ~verify_ssl THEN "unverified" ELSE "verified"

\* BedrockClient.__init__, `if not verify_ssl:`: the process-global default
\* HTTPS context after the constructor has run
DefaultContextAfter(verify_ssl, current) ==
    IF ~verify_ssl THEN "unverified" ELSE current

InitNew ==
    /\ op = "none" /\ arg = None /\ ret = Pending
    /\ NoCommand
    /\ NoClient

NewFigmaClient ==
    /\ Len(clients) < MaxClients
    /\ \E verify_ssl \in BOOLEAN :
         clients' = Append(clients, FigmaClient(Str("secret"), verify_ssl))
    /\ UNCHANGED <<callVars, cmdVars, default_https_context>>

NewBedrockClient ==
    /\ Len(clients) < MaxClients
    /\ \E verify_ssl \in BOOLEAN, raised \in BOOLEAN :
         /\ default_https_context' =
                DefaultContextAfter(verify_ssl, default_https_context)
         /\ clients' = Append(clients, BedrockClient(verify_ssl, raised))
    /\ UNCHANGED <<callVars, cmdVars>>

NextNew == NewFigmaClient \/ NewBedrockClient

SpecNew == InitNew /\ [][NextNew]_vars

---------------------------------------------------------------------------
(* main.py: the commands extract_figma, generate_bdd and full_pipeline *)

Commands == {"extract_figma", "generate_bdd", "full_pipeline"}
Types == {"functional", "ui", "accessibility", "performance"}
Formats == {"markdown", "pdf", "html", "all"}

\* a string read from an option or from the environment: not given, empty,
\* or a value
Settings == {None, Str(""), Str("secret")}

\* Python's `a or b`
Or(a, b) == IF Truthy(a) THEN a ELSE b

\* what a command reads from its options, the environment and the disk:
\* the token option, FIGMA_ACCESS_TOKEN, AWS_ACCESS_KEY_ID,
\* AWS_SECRET_ACCESS_KEY, verify_ssl (from --no-ssl-verify and VERIFY_SSL),
\* --type, --format, and the state of the --input file
Configs ==
    [token : Settings, env_token : Settings,
     access_key : Settings, secret_key : Settings, verify_ssl : BOOLEAN,
     type : Types, format : Formats, input : {"missing", "malformed", "valid"}]

\* documents the design API may answer with
FigmaFile == MkDict([name |-> Str("App"),
                     document |-> MkDict([children |->
                         List(<<Canvas(List(<<FormFrame, EmptyFrame>>))>>)])])
FetchedDocs == {FigmaFile, Dict(<<>>), MkDict([document |-> None])}

\* JSON values a well-formed input file may hold
LoadedDocs == {extract_design_elements(FigmaFile), Dict(<<>>)}

Scenarios == Str("Feature: Login")

\* mutant of StepAfter: full_pipeline normalizes before it fetches
StepAfterSwapped(c, step) ==
    CASE c = "extract_figma" ->
           (CASE step = "config" -> "fetch"
              [] step = "fetch" -> "normalize"
              [] step = "normalize" -> "save"
              [] step = "save" -> "done")
      [] c = "generate_bdd" ->
           (CASE step = "config" -> "check_input"
              [] step = "check_input" -> "load"
              [] step = "load" -> "model"
              [] step = "model" -> "render"
              [] step = "render" -> "done")
      [] c = "full_pipeline" ->
           (CASE step = "config" -> "normalize"
              [] step = "normalize" -> "fetch"
              [] step = "fetch" -> "model"
              [] step = "model" -> "render"
              [] step = "render" -> "done")

\* the order of the steps of each command
StepAfter(c, step) ==
    CASE c = "extract_figma" ->
           (CASE step = "config" -> "fetch"
              [] step = "fetch" -> "normalize"
              [] step = "normalize" -> "save"
              [] step = "save" -> "done")
      [] c = "generate_bdd" ->
           (CASE step = "config" -> "check_input"
              [] step = "check_input" -> "load"
              [] step = "load" -> "model"
              [] step = "model" -> "render"
              [] step = "render" -> "done")
      [] c = "full_pipeline" ->
           (CASE step = "config" -> "fetch"
              [] step = "fetch" -> "normalize"
              [] step = "normalize" -> "model"
              [] step = "model" -> "render"
              [] step = "render" -> "done")

Msg(err, text) == [err |-> err, text |-> text]

\* the `except Exception as e` clause of the running command
ExceptText(c) ==
    CASE c = "extract_figma" -> "Error extracting Figma data"
      [] c = "generate_bdd" -> "Error generating BDD scenarios"
      [] c = "full_pipeline" -> "Pipeline failed"

\* mutant of Except: the message is echoed and the command goes on
ExceptGoesOn(events) ==
    /\ echo' = Append(echo, Msg(TRUE, ExceptText(cmd)))
    /\ trace' = trace \o events
    /\ pc' = StepAfter(cmd, pc)

\* a step raised: the except clause echoes one message and the command ends
Except(events) ==
    /\ echo' = Append(echo, Msg(TRUE, ExceptText(cmd)))
    /\ trace' = trace \o events
    /\ pc' = "done"

\* a step returned: the command goes on with the next step
Goes(step, events, msgs) ==
    /\ pc' = StepAfter(cmd, step)
    /\ trace' = trace \o events
    /\ echo' = echo \o msgs

\* the files a render call writes for --format
Outputs(format) ==
    IF format = "all" THEN {"markdown", "html", "pdf"} ELSE {format}

\* the files a render call that raises leaves behind: rendering produces a
\* file or fails, and a failure leaves no partial output
OutputsOnFailure(format) == {}

InitCmd ==
    /\ op = "none" /\ arg = None /\ ret = Pending
    /\ cmd \in Commands /\ cfg \in Configs /\ pc = "config"
    /\ raw_data = Unset /\ figma_data = Unset /\ bdd_scenarios = Unset
    /\ files = {} /\ echo = <<>> /\ trace = <<>>
    /\ NoClient

\* mutant of CheckConfig: full_pipeline checks the Figma token only
CheckConfigTokenOnly ==
    /\ pc = "config"
    /\ IF cmd # "generate_bdd" /\ ~Truthy(Or(cfg.token, cfg.env_token))
       THEN /\ echo' = Append(echo, Msg(TRUE, "Error: Figma access token is required"))
            /\ pc' = "done" /\ trace' = trace
       ELSE IF cmd = "generate_bdd"
               /\ (~Truthy(cfg.access_key) \/ ~Truthy(cfg.secret_key))
       THEN /\ echo' = Append(echo, Msg(TRUE, "Error: AWS credentials are required"))
            /\ pc' = "done" /\ trace' = trace
       ELSE Goes("config", <<>>,
                 IF cmd = "generate_bdd" THEN <<>> ELSE <<Msg(FALSE, "Starting")>>)
    /\ UNCHANGED <<callVars, cmd, cfg, raw_data, figma_data, bdd_scenarios, files,
                   procVars>>

\* the credential checks that open each command
CheckConfig ==
    /\ pc = "config"
    /\ IF cmd # "generate_bdd" /\ ~Truthy(Or(cfg.token, cfg.env_token))
       THEN /\ echo' = Append(echo, Msg(TRUE, "Error: Figma access token is required"))
            /\ pc' = "done" /\ trace' = trace
       ELSE IF cmd # "extract_figma"
               /\ (~Truthy(cfg.access_key) \/ ~Truthy(cfg.secret_key))
       THEN /\ echo' = Append(echo, Msg(TRUE, "Error: AWS credentials are required"))
            /\ pc' = "done" /\ trace' = trace
       ELSE Goes("config", <<>>,
                 IF cmd = "generate_bdd" THEN <<>> ELSE <<Msg(FALSE, "Starting")>>)
    /\ UNCHANGED <<callVars, cmd, cfg, raw_data, figma_data, bdd_scenarios, files,
                   procVars>>

\* generate_bdd: os.path.exists(input)
CheckInput ==
    /\ pc = "check_input"
    /\ IF cfg.input = "missing"
       THEN /\ echo' = Append(echo, Msg(TRUE, "Error: Input file not found"))
            /\ pc' = "done" /\ trace' = trace
       ELSE Goes("check_input", <<>>, <<>>)
    /\ UNCHANGED <<callVars, cmd, cfg, raw_data, figma_data, bdd_scenarios, files,
                   procVars>>

\* generate_bdd: json.load of the input file
LoadInput ==
    /\ pc = "load"
    /\ \/ /\ cfg.input = "valid"
          /\ \E d \in LoadedDocs : figma_data' = d
          /\ Goes("load", <<"load", "load_ok">>, <<Msg(FALSE, "Generating")>>)
       \/ /\ cfg.input = "malformed"
          /\ Except(<<"load", "load_failed">>)
          /\ UNCHANGED figma_data
    /\ UNCHANGED <<callVars, cmd, cfg, raw_data, bdd_scenarios, files, procVars>>

\* FigmaClient(...).get_file(file_id): returns the raw document or raises
Fetch ==
    /\ pc = "fetch"
    /\ clients' = Append(clients, FigmaClient(Or(cfg.token, cfg.env_token),
                                              cfg.verify_ssl))
    /\ \/ /\ \E d \in FetchedDocs : raw_data' = d
          /\ Goes("fetch", <<"fetch", "fetch_ok">>, <<>>)
       \/ /\ Except(<<"fetch", "fetch_failed">>)
          /\ UNCHANGED raw_data
    /\ UNCHANGED <<callVars, cmd, cfg, figma_data, bdd_scenarios, files,
                   default_https_context>>

\* figma_client.extract_design_elements(raw_data)
Normalize ==
    /\ pc = "normalize"
    /\ IF IsRaise(extract_design_elements(raw_data))
       THEN /\ Except(<<"normalize", "normalize_failed">>)
            /\ UNCHANGED figma_data
       ELSE /\ figma_data' = extract_design_elements(raw_data)
            /\ Goes("normalize", <<"normalize", "normalize_ok">>,
                    IF cmd = "full_pipeline" THEN <<Msg(FALSE, "Extracted")>>
                    ELSE <<>>)
    /\ UNCHANGED <<callVars, cmd, cfg, raw_data, bdd_scenarios, files, procVars>>

\* BedrockClient(...) and generate_bdd_scenarios or generate_test_scenarios
ModelCall ==
    /\ pc = "model"
    /\ default_https_context' =
           DefaultContextAfter(cfg.verify_ssl, default_https_context)
    /\ \/ /\ clients' = Append(clients, BedrockClient(cfg.verify_ssl, FALSE))
          /\ bdd_scenarios' = Scenarios
          /\ Goes("model", <<"model", "model_ok">>, <<>>)
       \/ /\ \E raised \in BOOLEAN :
                 clients' = Append(clients, BedrockClient(cfg.verify_ssl, raised))
          /\ Except(<<"model", "model_failed">>)
          /\ UNCHANGED bdd_scenarios
    /\ UNCHANGED <<callVars, cmd, cfg, raw_data, figma_data, files>>

\* DocumentGenerator: generate_all_formats or the generator of one format
Render ==
    /\ pc = "render"
    /\ \/ /\ files' = files \cup Outputs(cfg.format)
          /\ Goes("render", <<"render", "render_ok">>, <<Msg(FALSE, "Generated")>>)
       \/ /\ files' = files \cup OutputsOnFailure(cfg.format)
          /\ Except(<<"render", "render_failed">>)
    /\ UNCHANGED <<callVars, cmd, cfg, raw_data, figma_data, bdd_scenarios, procVars>>

\* extract_figma: DocumentGenerator().save_figma_data(processed_data, output)
Save ==
    /\ pc = "save"
    /\ \/ /\ files' = files \cup {"json"}
          /\ Goes("save", <<"save", "save_ok">>, <<Msg(FALSE, "Saved")>>)
       \/ /\ Except(<<"save", "save_failed">>)
          /\ UNCHANGED files
    /\ UNCHANGED <<callVars, cmd, cfg, raw_data, figma_data, bdd_scenarios, procVars>>

NextCmd ==
    \/ CheckConfig \/ CheckInput \/ LoadInput \/ Fetch
    \/ Normalize \/ ModelCall \/ Render \/ Save

SpecCmd == InitCmd /\ [][NextCmd]_vars

---------------------------------------------------------------------------
(* main.py: the command test_connection *)

\* the options --figma-token, --aws-key and --aws-secret and the environment
\* variables they fall back to
TestConfigs ==
    [figma_token : Settings, env_token : Settings,
     aws_key : Settings, env_access_key : Settings,
     aws_secret : Settings, env_secret_key : Settings]

InitTest ==
    /\ op = "none" /\ arg = None /\ ret = Pending
    /\ cmd = "test_connection" /\ cfg \in TestConfigs /\ pc = "test_figma"
    /\ raw_data = Unset /\ figma_data = Unset /\ bdd_scenarios = Unset
    /\ files = {} /\ echo = <<>> /\ trace = <<>>
    /\ NoClient

\* the opening message and the first try block: with a token, a FigmaClient
\* is constructed and success is echoed; no method of the client is called
TestFigma ==
    /\ pc = "test_figma"
    /\ IF Truthy(Or(cfg.figma_token, cfg.env_token))
       THEN /\ clients' = Append(clients,
                   FigmaClient(Or(cfg.figma_token, cfg.env_token), TRUE))
            /\ echo' = echo \o <<Msg(FALSE, "Testing API connections"),
                        Msg(FALSE, "Figma API: Connection successful")>>
       ELSE /\ clients' = clients
            /\ echo' = echo \o <<Msg(FALSE, "Testing API connections"),
                        Msg(FALSE, "Figma API: No token provided")>>
    /\ pc' = "test_bedrock"
    /\ UNCHANGED <<callVars, cmd, cfg, raw_data, figma_data, bdd_scenarios,
                   files, trace, default_https_context>>

\* the second try block: with both keys, a BedrockClient is constructed;
\* success is echoed when the constructor returns, failure when it raises;
\* no method of the client is called
TestBedrock ==
    /\ pc = "test_bedrock"
    /\ IF /\ Truthy(Or(cfg.aws_key, cfg.env_access_key))
          /\ Truthy(Or(cfg.aws_secret, cfg.env_secret_key))
       THEN \E raised \in BOOLEAN :
            /\ clients' = Append(clients, BedrockClient(TRUE, raised))
            /\ default_https_context' =
                   DefaultContextAfter(TRUE, default_https_context)
            /\ echo' = Append(echo, Msg(FALSE,
                   IF raised THEN "AWS Bedrock: Connection failed"
                   ELSE "AWS Bedrock: Connection successful"))
       ELSE /\ UNCHANGED procVars
            /\ echo' = Append(echo,
                   Msg(FALSE, "AWS Bedrock: No credentials provided"))
    /\ pc' = "done"
    /\ UNCHANGED <<callVars, cmd, cfg, raw_data, figma_data, bdd_scenarios,
                   files, trace>>

NextTest == TestFigma \/ TestBedrock

SpecTest == InitTest /\ [][NextTest]_vars

---------------------------------------------------------------------------
(* The raw and normalized nodes that correspond in a returned result *)

Min(a, b) == IF a < b THEN a ELSE b

IsType(n, t) == IsDict(n) /\ IsStr(Get(n, "type", None), t)
IsCanvas(n) == IsType(n, "CANVAS")
Shapes == {"RECTANGLE", "ELLIPSE", "POLYGON"}

\* the children a loop with default [] visits (root, canvas, frame)
Kids(n) == Items(Get(n, "children", List(<<>>)))
RootChildren(doc) == Kids(Get(doc, "document", Dict(<<>>)))
Canvases(doc) == SelectSeq(RootChildren(doc), IsCanvas)

\* the list under `key` of a normalized record (<<>> when it has none)
Out(rec, key) == IF IsDict(rec) /\ HasKey(rec, key) /\ IsList(rec.v[key])
                 THEN rec.v[key].v ELSE <<>>

RawList(n) == IF IsDict(n) /\ HasKey(n, "children") /\ IsList(n.v["children"])
              THEN n.v["children"].v ELSE <<>>

RECURSIVE ElementPairs(_, _)
\* <<raw node, normalized element>> for an element and all its descendants
ElementPairs(raw, out) ==
    {<<raw, out>>} \cup
    UNION { ElementPairs(RawList(raw)[i], Out(out, "children")[i]) :
            i \in 1..Min(Len(RawList(raw)), Len(Out(out, "children"))) }

\* <<raw frame, normalized frame>> pairs of a returned result
FramePairs ==
    IF ret.k # "dict" THEN {}
    ELSE IF op = "_process_frame" THEN {<<arg, ret>>}
    ELSE IF op = "extract_design_elements"
    THEN UNION { { <<Kids(Canvases(arg)[p])[f], Out(Out(ret, "pages")[p], "frames")[f]>> :
                   f \in 1..Min(Len(Kids(Canvases(arg)[p])),
                                Len(Out(Out(ret, "pages")[p], "frames"))) } :
                 p \in 1..Min(Len(Canvases(arg)), Len(Out(ret, "pages"))) }
    ELSE {}

\* <<raw node, normalized element>> pairs of a returned result, at every depth
Pairs ==
    IF ret.k # "dict" THEN {}
    ELSE IF op = "_process_element" THEN ElementPairs(arg, ret)
    ELSE UNION { UNION { ElementPairs(Kids(fp[1])[i], Out(fp[2], "elements")[i]) :
                         i \in 1..Min(Len(Kids(fp[1])), Len(Out(fp[2], "elements"))) } :
                 fp \in FramePairs }

\* a pair below the top level of an element
Nested(pr) == op = "_process_element" /\ pr # <<arg, ret>>


HasRootList(doc) ==
    /\ IsDict(doc) /\ HasKey(doc, "document") /\ IsDict(doc.v["document"])
    /\ HasKey(doc.v["document"], "children")
    /\ IsList(doc.v["document"].v["children"])

---------------------------------------------------------------------------
(* C1 *)

\* C1: normalization never raises: every call of extract_design_elements,
\* _process_frame and _process_element on a raw record returns a record,
\* also when fields of the input are null or malformed, and a document
\* whose `document` is no record or has no list of children yields an
\* empty `pages`.
C1_NeverRaises ==
    IsDict(arg) =>
        /\ ret.k # "raise"
        /\ (op = "extract_design_elements" /\ ret.k # "pending"
              /\ ~HasRootList(arg)) => Out(ret, "pages") = <<>>

---------------------------------------------------------------------------
(* C2 *)

HasFontSize(raw) ==
    /\ HasKey(raw, "style") /\ IsDict(raw.v["style"])
    /\ HasKey(raw.v["style"], "fontSize")

---------------------------------------------------------------------------
(* C3 *)

RECURSIVE ElementMatches(_, _)
\* out is the element of raw: same id and type, and child for child the
\* elements of raw's children, in raw's order
ElementMatches(raw, out) ==
    /\ IsDict(out) /\ HasKey(out, "id") /\ HasKey(out, "type")
    /\ out.v["id"] = Get(raw, "id", None)
    /\ out.v["type"] = Get(raw, "type", None)
    /\ Len(Out(out, "children")) = Len(RawList(raw))
    /\ \A i \in 1..Len(RawList(raw)) :
           ElementMatches(RawList(raw)[i], Out(out, "children")[i])

FrameMatches(raw, out) ==
    /\ IsDict(out) /\ HasKey(out, "id")
    /\ out.v["id"] = Get(raw, "id", None)
    /\ Len(Out(out, "elements")) = Len(Kids(raw))
    /\ \A i \in 1..Len(Kids(raw)) :
           ElementMatches(Kids(raw)[i], Out(out, "elements")[i])

PageMatches(raw, out) ==
    /\ IsDict(out) /\ HasKey(out, "id")
    /\ out.v["id"] = Get(raw, "id", None)
    /\ Len(Out(out, "frames")) = Len(Kids(raw))
    /\ \A i \in 1..Len(Kids(raw)) :
           FrameMatches(Kids(raw)[i], Out(out, "frames")[i])

\* C3: sibling order and count are preserved at every level: the i-th page
\* is that of the i-th CANVAS child of the root, the i-th frame of a page
\* that of the canvas's i-th child, the i-th entry of `elements` that of the
\* frame's i-th child, the i-th entry of `children` that of the i-th raw
\* child; none is dropped, duplicated or reordered.
C3_OrderPreserved ==
    ret.k = "dict" =>
        CASE op = "_process_element" -> ElementMatches(arg, ret)
          [] op = "_process_frame" -> FrameMatches(arg, ret)
          [] op = "extract_design_elements" ->
               /\ Len(Out(ret, "pages")) = Len(Canvases(arg))
               /\ \A p \in 1..Len(Canvases(arg)) :
                      PageMatches(Canvases(arg)[p], Out(ret, "pages")[p])

\* a frame with two different children, the second of them with two
\* different children of its own, has been normalized
C3_Witness ==
    /\ op = "_process_frame" /\ ret.k = "dict"
    /\ Len(Kids(arg)) = 2
    /\ IsType(Kids(arg)[1], "TEXT")
    /\ Len(RawList(Kids(arg)[2])) = 2
    /\ RawList(Kids(arg)[2])[1] # RawList(Kids(arg)[2])[2]
    /\ Len(Out(Out(ret, "elements")[2], "children")) = 2

---------------------------------------------------------------------------
(* C4 *)

\* the raw document without the root children that are records of a type
\* other than CANVAS
IsPageOrNoRecord(n) == ~IsDict(n) \/ IsCanvas(n)
OnlyCanvases(doc) ==
    Dict(SetItem(doc.v, "document",
         Dict(SetItem(doc.v["document"].v, "children",
              List(SelectSeq(doc.v["document"].v["children"].v,
                             IsPageOrNoRecord))))))

\* C4: pages are exactly the CANVAS children of the root: one page per root
\* child of type CANVAS and none for any other; a root child of another
\* type adds no page and no frame and causes no error, whatever its subtree:
\* the result, raised or returned, is that of the document without it.
C4_PagesAreCanvases ==
    (op = "extract_design_elements" /\ ret.k # "pending") =>
        /\ ret.k = "dict" =>
             /\ HasKey(ret, "pages") /\ IsList(ret.v["pages"])
             /\ Len(ret.v["pages"].v) = Len(Canvases(arg))
             /\ \A p \in 1..Len(ret.v["pages"].v) :
                    /\ ret.v["pages"].v[p].v["id"] = Get(Canvases(arg)[p], "id", None)
                    /\ Len(Out(ret.v["pages"].v[p], "frames"))
                         = Len(Kids(Canvases(arg)[p]))
        /\ HasRootList(arg) => ret = extract_design_elements(OnlyCanvases(arg))

\* a document with a canvas of two frames and a non-canvas sibling that has
\* a frame of its own has been normalized to one page
C4_Witness ==
    /\ op = "extract_design_elements" /\ ret.k = "dict"
    /\ Len(RootChildren(arg)) = 2
    /\ \E i \in 1..2 : /\ IsType(RootChildren(arg)[i], "FRAME")
                       /\ Len(Kids(RootChildren(arg)[i])) = 1
    /\ Len(Canvases(arg)) = 1 /\ Len(Kids(Canvases(arg)[1])) = 2
    /\ Len(Out(ret, "pages")) = 1
    /\ Len(Out(Out(ret, "pages")[1], "frames")) = 2

---------------------------------------------------------------------------
(* C5 *)

\* C5: a normalized element has the key `children` iff the raw node's
\* children is a non-empty sequence, and never an empty `children`; a
\* normalized frame always has the key `elements`, the empty sequence for a
\* raw frame without children.
C5_ChildrenPresence ==
    /\ \A pr \in Pairs :
           /\ HasKey(pr[2], "children") <=> Len(RawList(pr[1])) > 0
           /\ HasKey(pr[2], "children") =>
                IsList(pr[2].v["children"]) /\ Len(pr[2].v["children"].v) > 0
    /\ \A fp \in FramePairs :
           /\ HasKey(fp[2], "elements") /\ IsList(fp[2].v["elements"])
           /\ Len(Kids(fp[1])) = 0 => fp[2].v["elements"] = List(<<>>)

\* a frame without children has been normalized to empty elements
C5_Witness ==
    /\ op = "_process_frame" /\ ret.k = "dict"
    /\ ~HasKey(arg, "children")
    /\ ret.v["elements"] = List(<<>>)

---------------------------------------------------------------------------
(* C6 *)

\* C6: for a raw node of any type the output has interactive = true and
\* interactions equal to the raw one exactly when the raw interactions is
\* truthy; for absent or empty interactions it has neither key, and
\* interactive is never present with the value false.
C6_InteractiveIffTruthy ==
    \A pr \in Pairs :
        LET truthy == HasKey(pr[1], "interactions")
                      /\ Truthy(pr[1].v["interactions"])
        IN /\ HasKey(pr[2], "interactive") <=> truthy
           /\ HasKey(pr[2], "interactions") <=> truthy
           /\ truthy => /\ pr[2].v["interactive"] = True
                        /\ pr[2].v["interactions"] = pr[1].v["interactions"]

\* a node with interactions {} has been normalized without the two keys
C6_Witness ==
    \E pr \in Pairs : /\ HasKey(pr[1], "interactions")
                      /\ pr[1].v["interactions"] = Dict(<<>>)
                      /\ ~HasKey(pr[2], "interactive")
                      /\ ~HasKey(pr[2], "interactions")

---------------------------------------------------------------------------
(* C7 *)

CommonKeys == {"name", "id", "type", "visible",
               "interactive", "interactions", "children"}

\* C7: a TEXT node gets text ("" without characters) and no shape or
\* component field; a RECTANGLE, ELLIPSE or POLYGON node gets fills and
\* strokes (the raw value, or the empty sequence) and no text or component
\* field; a node of a type outside the three buckets gets no field beyond
\* name, id, type, visible and the type-independent ones.
C7_TypeBucketFields ==
    \A pr \in Pairs :
        LET raw == pr[1]
            keys == DOMAIN pr[2].v
        IN /\ IsType(raw, "TEXT") =>
                /\ "text" \in keys
                /\ pr[2].v["text"] = Get(raw, "characters", Str(""))
                /\ keys \cap {"fills", "strokes", "component_id"} = {}
           /\ (\E t \in Shapes : IsType(raw, t)) =>
                /\ {"fills", "strokes"} \subseteq keys
                /\ pr[2].v["fills"] = Get(raw, "fills", List(<<>>))
                /\ pr[2].v["strokes"] = Get(raw, "strokes", List(<<>>))
                /\ keys \cap {"text", "font_size", "component_id"} = {}
           /\ (IsType(raw, "COMPONENT") \/ IsType(raw, "INSTANCE")) =>
                keys \cap {"text", "font_size", "fills", "strokes"} = {}
           /\ (~\E t \in Shapes \cup {"TEXT", "COMPONENT", "INSTANCE"} :
                   IsType(raw, t)) =>
                keys \subseteq CommonKeys

\* a GROUP node that carries characters, fills and componentId has been
\* normalized to the common fields alone
C7_Witness ==
    \E pr \in Pairs : /\ IsType(pr[1], "GROUP")
                      /\ {"characters", "fills", "componentId"} \subseteq DOMAIN pr[1].v
                      /\ DOMAIN pr[2].v = {"name", "id", "type", "visible"}

---------------------------------------------------------------------------
(* C8 *)

\* C8: visible is always present in a normalized element, at every depth:
\* it is the raw node's visible when the raw node has the key, true when not.
C8_VisibleDefaultTrue ==
    \A pr \in Pairs :
        /\ HasKey(pr[2], "visible")
        /\ pr[2].v["visible"] =
             (IF HasKey(pr[1], "visible") THEN pr[1].v["visible"] ELSE True)

\* below the top level, a node without visible has been normalized to
\* visible = true and a sibling with visible = false to visible = false
C8_Witness ==
    /\ \E pr \in Pairs : /\ Nested(pr) /\ ~HasKey(pr[1], "visible")
                         /\ pr[2].v["visible"] = True
    /\ \E pr \in Pairs : /\ Nested(pr) /\ HasKey(pr[1], "visible")
                         /\ pr[2].v["visible"] = False

---------------------------------------------------------------------------
(* C9 *)

EmptyNormalized ==
    Dict(("file_name" :> Str("Unknown")) @@ ("pages" :> List(<<>>))
      @@ ("components" :> List(<<>>)) @@ ("text_elements" :> List(<<>>))
      @@ ("interactive_elements" :> List(<<>>)))

\* C9: the normalized document has components, text_elements and
\* interactive_elements present and empty, whatever the tree contains, and
\* the raw document {} normalizes to exactly file_name "Unknown", pages
\* empty and the three reserved sequences empty.
C9_ReservedEmpty ==
    (op = "extract_design_elements" /\ ret.k # "pending") =>
        /\ ret.k = "dict" =>
             \A key \in {"components", "text_elements", "interactive_elements"} :
                 HasKey(ret, key) /\ ret.v[key] = List(<<>>)
        /\ (IsDict(arg) /\ DOMAIN arg.v = {}) => ret = EmptyNormalized

\* a document whose tree has a TEXT, an interactive and a COMPONENT node has
\* been normalized
C9_Witness ==
    /\ op = "extract_design_elements" /\ ret.k = "dict"
    /\ \E pr \in Pairs : IsType(pr[1], "TEXT")
    /\ \E pr \in Pairs : IsType(pr[1], "COMPONENT")
    /\ \E pr \in Pairs : HasKey(pr[2], "interactive")
    /\ ret.v["components"] = List(<<>>)

---------------------------------------------------------------------------
(* C10 *)

Before(i, events) == \E j \in 1..(i - 1) : trace[j] \in events

\* C10: in every run of full_pipeline, extract_figma and generate_bdd,
\* normalization starts only after the fetch has returned, the model call
\* only after the normalized document is there (normalized in this run or
\* loaded from the input file), and a render or save step only after its
\* input (the model's text, or the normalized document) has been produced.
C10_SequentialDependency ==
    /\ \A i \in 1..Len(trace) :
         /\ trace[i] = "normalize" => Before(i, {"fetch_ok"})
         /\ trace[i] = "model" => Before(i, {"normalize_ok", "load_ok"})
         /\ trace[i] = "render" => Before(i, {"model_ok"})
         /\ trace[i] = "save" => Before(i, {"normalize_ok"})
    /\ (\E i \in 1..Len(trace) : trace[i] = "normalize") => raw_data # Unset
    /\ (\E i \in 1..Len(trace) : trace[i] = "model") => figma_data # Unset
    /\ (\E i \in 1..Len(trace) : trace[i] = "render") => bdd_scenarios # Unset
    /\ (\E i \in 1..Len(trace) : trace[i] = "save") => figma_data # Unset

\* a run of full_pipeline has fetched, normalized, called the model and
\* rendered
C10_Witness ==
    /\ cmd = "full_pipeline" /\ pc = "done"
    /\ trace = <<"fetch", "fetch_ok", "normalize", "normalize_ok",
                 "model", "model_ok", "render", "render_ok">>

---------------------------------------------------------------------------
(* C11 *)

FailEvents == {"fetch_failed", "normalize_failed", "load_failed",
               "model_failed", "render_failed", "save_failed"}

Errors == {i \in 1..Len(echo) : echo[i].err}

\* the input file of generate_bdd is not there
InputNotFound ==
    /\ cmd = "generate_bdd" /\ cfg.input = "missing"
    /\ Truthy(cfg.access_key) /\ Truthy(cfg.secret_key) /\ pc = "done"

---------------------------------------------------------------------------
(* C13 *)

Echoed(text) == \E i \in 1..Len(echo) : echo[i].text = text

\* a request to the service has been answered in this run
RoundTrip(event) == \E j \in 1..Len(trace) : trace[j] = event

\* C13: in every run of test_connection, "Figma API: Connection successful"
\* is echoed only after a request to the design API has been answered, and
\* "AWS Bedrock: Connection successful" only after a request to the model
\* endpoint has been answered.
C13_SuccessAfterRoundTrip ==
    /\ Echoed("Figma API: Connection successful") => RoundTrip("fetch_ok")
    /\ Echoed("AWS Bedrock: Connection successful") => RoundTrip("model_ok")

---------------------------------------------------------------------------
(* C14 *)

\* the constructor of a BedrockClient has run with verify_ssl = False
UnverifiedRequested ==
    \E i \in 1..Len(clients) :
        clients[i].cls = "BedrockClient" /\ ~clients[i].verify_ssl

\* C14: after any sequence of client constructions the process-global
\* default HTTPS context is the unverified one exactly when the constructor
\* of some BedrockClient has run with verify_ssl = False; once unverified it
\* stays unverified, whatever is constructed next; and the construction of
\* a FigmaClient leaves the global setting as it was.
C14_OneWaySwitch ==
    /\ [](default_https_context = "unverified" <=> UnverifiedRequested)
    /\ [][/\ default_https_context = "unverified"
                => default_https_context' = "unverified"
          /\ (/\ Len(clients') = Len(clients) + 1
              /\ clients'[Len(clients')].cls = "FigmaClient")
                => default_https_context' = default_https_context]_vars

\* a BedrockClient was constructed without verification; a FigmaClient and a
\* BedrockClient constructed after it with verify_ssl = True run with the
\* global default still unverified
C14_Witness ==
    /\ default_https_context = "unverified"
    /\ clients = <<BedrockClient(FALSE, FALSE),
                   FigmaClient(Str("secret"), TRUE),
                   BedrockClient(TRUE, FALSE)>>

---------------------------------------------------------------------------
(* C15 *)

\* extract_figma or full_pipeline with the token option and
\* FIGMA_ACCESS_TOKEN both empty
NoFigmaToken ==
    /\ cmd \in {"extract_figma", "full_pipeline"}
    /\ ~Truthy(cfg.token) /\ ~Truthy(cfg.env_token)

\* generate_bdd or full_pipeline with an AWS key empty
NoAwsKey ==
    /\ cmd \in {"generate_bdd", "full_pipeline"}
    /\ (~Truthy(cfg.access_key) \/ ~Truthy(cfg.secret_key))

\* C15: when extract_figma or full_pipeline has no Figma token, or
\* generate_bdd or full_pipeline lacks an AWS key, the command takes no step
\* (no fetch, no input load, no model call, no render or save), constructs
\* no client and writes no file, and it ends having echoed one error message
\* and nothing else; in full_pipeline this holds for a missing AWS key also
\* when the Figma token is there.
C15_MissingCredentialsStop ==
    (NoFigmaToken \/ NoAwsKey) =>
        /\ pc \in {"config", "done"}
        /\ trace = <<>> /\ files = {} /\ clients = <<>>
        /\ raw_data = Unset /\ bdd_scenarios = Unset
        /\ pc = "done" =>
              /\ Len(echo) = 1 /\ echo[1].err
              /\ echo[1].text = IF NoFigmaToken
                                THEN "Error: Figma access token is required"
                                ELSE "Error: AWS credentials are required"

\* full_pipeline has ended on the missing AWS secret key although the Figma
\* token is there
C15_Witness ==
    /\ cmd = "full_pipeline" /\ pc = "done"
    /\ cfg.env_token = Str("secret") /\ cfg.access_key = Str("secret")
    /\ cfg.secret_key = None
    /\ echo = <<Msg(TRUE, "Error: AWS credentials are required")>>
    /\ trace = <<>>

====
